---- MODULE Spec2Model ----
(***************************************************************************)
(* One call of snr() (src/snr.py), statement by statement.                 *)
(*                                                                         *)
(* Times, signal values, noise values and fitted parameters are integers;  *)
(* a float produced by a division is an exact fraction in lowest terms or  *)
(* one of the IEEE specials inf, -inf, nan.  Array indices are 0-based as  *)
(* in Python; TLA+ sequences are 1-based, so element i of an array a is    *)
(* a[i + 1].  scipy's curve_fit is outside the repository: it either       *)
(* raises or returns some triple (max_pos, width, height).                 *)
(***************************************************************************)
EXTENDS Integers, Sequences, FiniteSets

VARIABLES
    time_data, signal_data, noise_data, time_range,   \* arguments: the traces
    line_shape, sub_zero, plot, plot_path, title,     \* arguments: the options
    window, x_data, y_data,                           \* lines 64-68
    initial_params, params,                           \* lines 88-90
    max_pos, width, height, begin, end,               \* lines 92-96, 107, 109
    noise_window, signal, noise, snr,                 \* lines 98-102
    figures, saved, fig_title,                        \* matplotlib's effects
    pc, err, returned,                                \* control, exception, result
    log, fit_calls                                    \* the statements executed so far

args == <<time_data, signal_data, noise_data, time_range,
          line_shape, sub_zero, plot, plot_path, title>>
locals == <<window, x_data, y_data, initial_params, params,
            max_pos, width, height, begin, end,
            noise_window, signal, noise, snr>>
effects == <<figures, saved, fig_title>>
vars == <<args, locals, effects, pc, err, returned, log, fit_calls>>

----------------------------------------------------------------------------
(* Bounds of the model. *)

MaxLen == 4

TimeGaps == {10, 20}
RangeVals == {-5, 10, 15, 30}
FitCenters == {15, 60}
FitWidths == {-2, 1}
FitHeights == {-2, 0, 3}
PlotPaths == {"None", "fig.png"}
Titles == {"run"}

----------------------------------------------------------------------------
(* Numbers. *)

Abs(x) == IF x < 0 THEN -x ELSE x

RECURSIVE Gcd(_, _)
Gcd(a, b) == IF b = 0 THEN a ELSE Gcd(b, a % b)

NoValue == [kind |-> "none", num |-> 0, den |-> 1]
Special(k) == [kind |-> k, num |-> 0, den |-> 1]

\* A finite float: the fraction n/d (d > 0) in lowest terms.
Frac(n, d) ==
    LET g == Gcd(Abs(n), d)
    IN [kind |-> "finite", num |-> n \div g, den |-> d \div g]

\* numpy's float division a / b of two finite numbers given as integers:
\* a zero divisor gives a warning and inf, -inf or nan, never an exception.
TrueDivide(a, b) ==
    IF b = 0
    THEN (IF a > 0 THEN Special("inf")
          ELSE IF a < 0 THEN Special("-inf") ELSE Special("nan"))
    ELSE IF b < 0 THEN Frac(-a, -b) ELSE Frac(a, b)

\* The exception of a statement that raises none.
NoError == "none"

----------------------------------------------------------------------------
(* Arrays. *)

Indices(a) == 0 .. (Len(a) - 1)

\* max(a) and min(a) of a non-empty array.
Max(a) == CHOOSE v \in {a[i] : i \in 1..Len(a)} :
              \A j \in 1..Len(a) : a[j] <= v
Min(a) == CHOOSE v \in {a[i] : i \in 1..Len(a)} :
              \A j \in 1..Len(a) : v <= a[j]

\* a[lo:hi] for indices 0 <= lo, hi <= len(a): empty when lo >= hi.
Slice(a, lo, hi) ==
    IF lo >= hi THEN << >> ELSE [k \in 1..(hi - lo) |-> a[lo + k]]

\* np.abs(a - t)
AbsDiff(a, t) == [k \in 1..Len(a) |-> Abs(a[k] - t)]

RECURSIVE ArgMinFrom(_, _, _)
\* The scan of np.argmin: a later element replaces the best one only when
\* it is strictly smaller, so the first minimum wins.
ArgMinFrom(d, i, best) ==
    IF i >= Len(d) THEN best
    ELSE ArgMinFrom(d, i + 1, IF d[i + 1] < d[best + 1] THEN i ELSE best)

\* np.argmin(d) of a non-empty array.
ArgMin(d) == ArgMinFrom(d, 1, 0)

\* Fault variant of NearestIndex: the insertion point of t in the sorted
\* array (np.searchsorted), clipped to the last index.
NearestIndexSorted(a, t) ==
    IF \E i \in Indices(a) : a[i + 1] >= t
    THEN CHOOSE i \in Indices(a) :
             /\ a[i + 1] >= t
             /\ \A j \in Indices(a) : j < i => a[j + 1] < t
    ELSE Len(a) - 1

\* np.argmin(np.abs(time_data - t)), lines 64, 65 and 98.
NearestIndex(a, t) == ArgMin(AbsDiff(a, t))

----------------------------------------------------------------------------
(* The inputs. *)

RECURSIVE PrefixSum(_, _)
PrefixSum(g, k) == IF k = 0 THEN 0 ELSE PrefixSum(g, k - 1) + g[k]

\* The time array of n points that starts at 0 and advances by the gaps g.
TimeArray(n, g) == [i \in 1..n |-> PrefixSum(g, i - 1)]

\* Strictly increasing time arrays of 1 .. MaxLen points.
TimeArrays ==
    UNION {{TimeArray(n, g) : g \in [1..(n - 1) -> TimeGaps]} : n \in 1..MaxLen}

\* A trace of n points of value lo, with the value hi at position k (if any).
Spike(n, k, lo, hi) == [i \in 1..n |-> IF i = k THEN hi ELSE lo]

\* Signal traces: flat, or a peak at the second point.
SignalTraces(n) == {Spike(n, k, 0, 7) : k \in {0, 2}}

\* Noise traces: constant, or one excursion anywhere.
NoiseTraces(n) == {Spike(n, k, -1, 2) : k \in 0..n}

LineShapes == {"lorentzian", "gaussian"}

\* What curve_fit can answer: a triple of optimal parameters.
FitTriples == {<<c, w, h>> : c \in FitCenters, w \in FitWidths, h \in FitHeights}

----------------------------------------------------------------------------
(* The statements of snr(). *)

\* The number of parameters of lorentzian() and gaussian() after x_data.
NumParams == 3
\* The initial guess of the width, line 88.
InitialWidth == 1
\* The noise is measured over ten widths on either side of the peak.
NoiseHalfWidths == 10

Init ==
    /\ time_data \in TimeArrays
    /\ signal_data \in SignalTraces(Len(time_data))
    /\ noise_data \in NoiseTraces(Len(time_data))
    /\ time_range \in RangeVals \X RangeVals
    /\ line_shape \in LineShapes
    /\ sub_zero \in BOOLEAN
    /\ plot \in BOOLEAN
    /\ plot_path \in PlotPaths
    /\ title \in Titles
    /\ window = << >> /\ x_data = << >> /\ y_data = << >>
    /\ initial_params = << >>
    /\ params = [lorentzian |-> << >>, gaussian |-> << >>]
    /\ max_pos = 0 /\ width = 0 /\ height = 0 /\ begin = 0 /\ end = 0
    /\ noise_window = << >> /\ signal = 0 /\ noise = 0 /\ snr = NoValue
    /\ figures = 0 /\ saved = << >> /\ fig_title = << >>
    /\ pc = "window" /\ err = NoError /\ returned = NoValue
    /\ log = << >> /\ fit_calls = << >>

\* Lines 64-68: the window indices and the windowed data.
Windowing ==
    /\ pc = "window"
    /\ LET w == <<NearestIndex(time_data, time_range[1]),
                  NearestIndex(time_data, time_range[2])>>
       IN /\ window' = w
          /\ x_data' = Slice(time_data, w[1], w[2])
          /\ y_data' = Slice(signal_data, w[1], w[2])
    /\ pc' = "initial_params"
    /\ log' = Append(log, "window")
    /\ UNCHANGED <<args, initial_params, params, max_pos, width, height, begin,
                   end, noise_window, signal, noise, snr, effects, err,
                   returned, fit_calls>>

\* Fault variant of NpMax: a maximum with a default (np.max(y, initial=0)),
\* which raises nothing for an array without elements.
NpMaxInitial(y) ==
    [error |-> NoError, value |-> IF Len(y) = 0 THEN 0 ELSE Max(y)]

\* np.max(y): numpy raises ValueError for an array without elements.
NpMax(y) ==
    IF Len(y) = 0 THEN [error |-> "ValueError", value |-> 0]
    ELSE [error |-> NoError, value |-> Max(y)]

\* Line 88: (np.average(time_range), 1, np.max(y_data)).
InitialParams ==
    /\ pc = "initial_params"
    /\ log' = Append(log, "initial_params")
    /\ LET m == NpMax(y_data)
       IN IF m.error # NoError
          THEN /\ pc' = "raised"
               /\ err' = m.error
               /\ UNCHANGED initial_params
          ELSE /\ initial_params' =
                     <<TrueDivide(time_range[1] + time_range[2], 2),
                       InitialWidth, m.value>>
               /\ pc' = "fit"
               /\ UNCHANGED err
    /\ UNCHANGED <<args, window, x_data, y_data, params, max_pos, width,
                   height, begin, end, noise_window, signal, noise, snr,
                   effects, returned, fit_calls>>

\* scipy.optimize.curve_fit(f, x, y, p0=p0) with the default method: it
\* refuses fewer points than parameters (TypeError; ValueError for none),
\* raises RuntimeError when the least-squares solver does not converge, and
\* otherwise returns the optimal parameters.
CurveFit(x, y, p0) ==
    IF Len(y) = 0 THEN {[error |-> "ValueError", popt |-> << >>]}
    ELSE IF Len(y) < NumParams THEN {[error |-> "TypeError", popt |-> << >>]}
    ELSE {[error |-> "RuntimeError", popt |-> << >>]}
         \cup {[error |-> NoError, popt |-> t] : t \in FitTriples}

\* Fault variant of FitOrder: only the shape asked for is fitted.
FitOnlySelected(shape) == <<shape>>

\* The fits that the dictionary display of lines 89-90 evaluates, in order,
\* whatever the line shape asked for.
FitOrder(shape) == <<"lorentzian", "gaussian">>

\* Fault variant of FitResult: a failed fit is caught and the initial guess
\* of width and height stands in for the optimal parameters.
FitResultFallback(out, p0) ==
    IF out.error # NoError
    THEN [error |-> NoError, popt |-> <<0, p0[2], p0[3]>>]
    ELSE out

\* What snr() makes of an outcome of curve_fit: there is no handler around
\* lines 89-90, so an exception stays an exception.
FitResult(out, p0) == out

\* Lines 89 and 90: one call of curve_fit.
Fit(f) ==
    /\ pc = "fit"
    /\ Len(fit_calls) < Len(FitOrder(line_shape))
    /\ FitOrder(line_shape)[Len(fit_calls) + 1] = f
    /\ log' = Append(log, "curve_fit")
    /\ \E out \in CurveFit(x_data, y_data, initial_params) :
         LET r == FitResult(out, initial_params)
         IN /\ fit_calls' = Append(fit_calls,
                                [f |-> f, xdata |-> x_data, ydata |-> y_data,
                                 p0 |-> initial_params, outcome |-> out.error])
            /\ IF r.error # NoError
               THEN /\ pc' = "raised"
                    /\ err' = r.error
                    /\ UNCHANGED params
               ELSE /\ params' = [params EXCEPT ![f] = r.popt]
                    /\ pc' = IF Len(fit_calls) + 1 = Len(FitOrder(line_shape))
                             THEN "noise_window" ELSE "fit"
                    /\ UNCHANGED err
    /\ UNCHANGED <<args, window, x_data, y_data, initial_params, max_pos,
                   width, height, begin, end, noise_window, signal, noise,
                   snr, effects, returned>>

\* Fault variant of AbsWidth: the fitted width is used as it comes.
AbsWidthRaw(w) == w

\* Line 94: width = abs(width).
AbsWidth(w) == Abs(w)

\* Lines 92-98: the parameters of the chosen shape and the noise window.
NoiseWindow ==
    /\ pc = "noise_window"
    /\ log' = Append(log, "noise_window")
    /\ LET p == params[line_shape]
           w == AbsWidth(p[2])
           b == p[1] - w * NoiseHalfWidths
           e == p[1] + w * NoiseHalfWidths
       IN /\ max_pos' = p[1]
          /\ width' = w
          /\ height' = p[3]
          /\ begin' = b
          /\ end' = e
          /\ noise_window' = Slice(noise_data, NearestIndex(time_data, b),
                                               NearestIndex(time_data, e))
    /\ pc' = "ratio"
    /\ UNCHANGED <<args, window, x_data, y_data, initial_params, params,
                   signal, noise, snr, effects, err, returned, fit_calls>>

\* Fault variant of PeakToPeak: an amplitude of 0 for no elements.
PeakToPeakOfNothing(w) ==
    [error |-> NoError, value |-> IF Len(w) = 0 THEN 0 ELSE Max(w) - Min(w)]

\* Fault variant of PeakToPeak: the operands of the subtraction swapped.
PeakToPeakSwapped(w) ==
    IF Len(w) = 0 THEN [error |-> "ValueError", value |-> 0]
    ELSE [error |-> NoError, value |-> Min(w) - Max(w)]

\* Line 101: max(w) - min(w); the builtin max raises ValueError for an
\* argument without elements.
PeakToPeak(w) ==
    IF Len(w) = 0 THEN [error |-> "ValueError", value |-> 0]
    ELSE [error |-> NoError, value |-> Max(w) - Min(w)]

\* Fault variant of Factor: sub_zero is ignored.
FactorIgnored(sz) == 1

\* Line 102: sub_zero + 1, a bool counted as 0 or 1.
Factor(sz) == IF sz THEN 2 ELSE 1

\* Lines 100-102: the ratio.
Ratio ==
    /\ pc = "ratio"
    /\ log' = Append(log, "ratio")
    /\ signal' = height
    /\ LET n == PeakToPeak(noise_window)
       IN IF n.error # NoError
          THEN /\ pc' = "raised"
               /\ err' = n.error
               /\ UNCHANGED <<noise, snr>>
          ELSE /\ noise' = n.value
               /\ snr' = TrueDivide(Factor(sub_zero) * height, n.value)
               /\ pc' = "plot"
               /\ UNCHANGED err
    /\ UNCHANGED <<args, window, x_data, y_data, initial_params, params,
                   max_pos, width, height, begin, end, noise_window, effects,
                   returned, fit_calls>>

\* Fault variant of Diagnostics: the test of plot_path outside `if plot:`.
DiagnosticsUnnested(p, path) == [figure |-> p, save |-> path # "None"]

\* Lines 104 and 117: a figure is made when plot is set, and written to a
\* file when, in addition, plot_path is not None.
Diagnostics(p, path) == [figure |-> p, save |-> p /\ path # "None"]

\* Lines 104-118: the optional figure.
Plot ==
    /\ pc = "plot"
    /\ LET d == Diagnostics(plot, plot_path)
       IN /\ IF d.figure
             THEN /\ figures' = figures + 1
                  /\ max_pos' = params.gaussian[1]
                  /\ width' = params.gaussian[2]
                  /\ height' = params.gaussian[3]
                  /\ fig_title' = <<title, snr>>
                  /\ log' = Append(log, "plot")
             ELSE UNCHANGED <<figures, max_pos, width, height, fig_title, log>>
          /\ saved' = IF d.save THEN Append(saved, plot_path) ELSE saved
    /\ pc' = "return"
    /\ UNCHANGED <<args, window, x_data, y_data, initial_params, params,
                   begin, end, noise_window, signal, noise, snr, err,
                   returned, fit_calls>>

\* Line 120.
Return ==
    /\ pc = "return"
    /\ returned' = snr
    /\ pc' = "returned"
    /\ log' = Append(log, "return")
    /\ UNCHANGED <<args, locals, effects, err, fit_calls>>

Next ==
    \/ Windowing
    \/ InitialParams
    \/ Fit("lorentzian")
    \/ Fit("gaussian")
    \/ NoiseWindow
    \/ Ratio
    \/ Plot
    \/ Return

Spec == Init /\ [][Next]_vars

----------------------------------------------------------------------------
(* Vocabulary of the properties. *)

Done(stage) == \E k \in 1..Len(log) : log[k] = stage
Finished == pc \in {"raised", "returned"}

\* i is an index of a whose element is nearest to t.
Minimises(a, t, i) ==
    /\ i \in Indices(a)
    /\ \A j \in Indices(a) : Abs(a[i + 1] - t) <= Abs(a[j + 1] - t)

\* i is the first such index.
FirstNearest(a, t, i) ==
    /\ Minimises(a, t, i)
    /\ \A j \in Indices(a) : j < i => Abs(a[j + 1] - t) > Abs(a[i + 1] - t)

\* s holds exactly the elements lo, ..., hi - 1 of a.
IsSlice(s, a, lo, hi) ==
    /\ Len(s) = (IF hi > lo THEN hi - lo ELSE 0)
    /\ \A k \in 1..Len(s) : s[k] = a[lo + k]

\* The fitted triple of the shape asked for.
Selected == params[line_shape]

----------------------------------------------------------------------------
(* C1: once the window is computed, each index of the window is an index  *)
(* of time_data nearest to its bound of time_range: an exact match is     *)
(* chosen, a bound below the first time gives index 0 and one above the   *)
(* last time gives the last index; x_data and y_data hold exactly the     *)
(* elements of time_data and signal_data from the first index up to, not  *)
(* including, the second.                                                 *)
C1_NearestIndexWindow ==
    Done("window") =>
        /\ \A k \in {1, 2} :
             /\ Minimises(time_data, time_range[k], window[k])
             /\ \A i \in Indices(time_data) :
                    time_data[i + 1] = time_range[k] => window[k] = i
             /\ time_range[k] < time_data[1] => window[k] = 0
             /\ time_range[k] > time_data[Len(time_data)]
                    => window[k] = Len(time_data) - 1
        /\ IsSlice(x_data, time_data, window[1], window[2])
        /\ IsSlice(y_data, signal_data, window[1], window[2])

\* A window of at least two points whose start bound lies below the trace
\* and whose end bound matches a time exactly.
C1_Witness ==
    /\ Done("window")
    /\ time_range[1] < time_data[1]
    /\ \E i \in Indices(time_data) : time_data[i + 1] = time_range[2]
    /\ Len(x_data) >= 2
    /\ Len(x_data) < Len(time_data)

(* C2 as stated: a call with start >= end ends with InvalidRangeError and *)
(* without a fit attempted.                                               *)
C2_InvalidRangeErrorRaised ==
    (Finished /\ time_range[1] >= time_range[2]) =>
        /\ pc = "raised"
        /\ err = "InvalidRangeError"
        /\ fit_calls = << >>

(* C2, amended: a call with start >= end gets an empty window, so line 88 *)
(* raises numpy's ValueError; the call never reaches a fit, derives no    *)
(* noise window and returns nothing.                                      *)
C2_RaisesBeforeFit ==
    time_range[1] >= time_range[2] =>
        /\ pc \in {"window", "initial_params", "raised"}
        /\ fit_calls = << >>
        /\ ~Done("curve_fit")
        /\ returned = NoValue
        /\ Done("window") => (x_data = << >> /\ y_data = << >>)
        /\ pc = "raised" =>
             (err = "ValueError" /\ log = <<"window", "initial_params">>)

\* A call whose start lies after its end on a trace long enough to fit,
\* ended by the exception.
C2_Witness ==
    /\ time_range[1] > time_range[2]
    /\ Len(time_data) >= NumParams
    /\ pc = "raised"
    /\ err = "ValueError"

(* C3: a call whose noise slice has zero peak-to-peak amplitude never     *)
(* returns a finite number and never returns a not-a-number value.        *)
C3_DegenerateNoise ==
    (pc = "returned" /\ noise = 0) => returned.kind \in {"inf", "-inf"}

\* The ratio that lines 100-102 compute for a value of sub_zero, the fitted
\* height and the noise slice being those of the state.
RatioFor(sz) == TrueDivide(Factor(sz) * signal, noise)

\* Float a is twice float b.
IsTwice(a, b) ==
    \/ a.kind = "finite" /\ b.kind = "finite"
         /\ a.num * b.den = 2 * b.num * a.den
    \/ a.kind = b.kind /\ a.kind \in {"inf", "-inf"}

(* C4: a returned value is the quotient f * height / (max(noise slice) -  *)
(* min(noise slice)), height being the fitted height of the shape asked   *)
(* for and f being 2 with sub_zero and 1 without (for an amplitude of 0   *)
(* the quotient is what float division makes of it); for the same traces, *)
(* window and shape the ratio with sub_zero is exactly twice the ratio    *)
(* without, whenever the ratio is a number.                               *)
C4_RatioFormula ==
    pc = "returned" =>
        /\ signal = Selected[3]
        /\ noise = Max(noise_window) - Min(noise_window)
        /\ returned = RatioFor(sub_zero)
        /\ noise # 0 =>
             /\ returned.kind = "finite"
             /\ returned.den > 0
             /\ returned.num * (Max(noise_window) - Min(noise_window))
                  = (IF sub_zero THEN 2 ELSE 1) * Selected[3] * returned.den
        /\ (noise = 0 /\ Selected[3] # 0) =>
             returned.kind = (IF Selected[3] > 0 THEN "inf" ELSE "-inf")
        /\ returned.kind # "nan" => IsTwice(RatioFor(TRUE), RatioFor(FALSE))

\* A returned ratio that is no integer, of a non-zero height, without the
\* doubling.
C4_Witness ==
    /\ pc = "returned"
    /\ ~sub_zero
    /\ returned.kind = "finite"
    /\ returned.den > 1
    /\ returned.num # 0

(* C5: once the noise window is derived, the noise slice is noise_data    *)
(* from the index of the time nearest to center - 10*|width| up to, not   *)
(* including, the index of the time nearest to center + 10*|width|, both  *)
(* indices taken in the whole of time_data; the first index is never      *)
(* greater than the second, and the fitted width negated gives the same   *)
(* slice.                                                                 *)
C5_NoiseWindow ==
    Done("noise_window") =>
        LET c == Selected[1]
            w == Selected[2]
            lo == c - NoiseHalfWidths * Abs(w)
            hi == c + NoiseHalfWidths * Abs(w)
        IN /\ begin = lo
           /\ end = hi
           /\ \E nb, ne \in Indices(time_data) :
                /\ FirstNearest(time_data, lo, nb)
                /\ FirstNearest(time_data, hi, ne)
                /\ nb <= ne
                /\ IsSlice(noise_window, noise_data, nb, ne)
           /\ noise_window =
                Slice(noise_data,
                      NearestIndex(time_data, c - AbsWidth(-w) * NoiseHalfWidths),
                      NearestIndex(time_data, c + AbsWidth(-w) * NoiseHalfWidths))

\* A negative fitted width, and a noise bound whose index in time_data is
\* no index of the windowed x_data.
C5_Witness ==
    /\ Done("noise_window")
    /\ Selected[2] < 0
    /\ Len(noise_window) >= 2
    /\ NearestIndex(time_data, end) >= Len(x_data)

\* The statements up to the ratio, in the order of lines 64-102.
StageOrder ==
    <<"window", "initial_params", "curve_fit", "curve_fit", "noise_window",
      "ratio">>

(* C6: for either line shape the statements run in the order windowing,   *)
(* fitting, noise window, ratio; by the time the noise window is derived  *)
(* the Lorentzian and then the Gaussian fit have both been made, on the   *)
(* windowed data and the same initial guess, and have both completed;     *)
(* the noise window and the ratio use the triple of the shape asked for.  *)
C6_BothFitsThenNoise ==
    /\ \A k \in 1..Len(log) : k <= Len(StageOrder) => log[k] = StageOrder[k]
    /\ \A k \in 1..Len(fit_calls) :
         /\ fit_calls[k].xdata = Slice(time_data, window[1], window[2])
         /\ fit_calls[k].ydata = Slice(signal_data, window[1], window[2])
         /\ fit_calls[k].p0 = initial_params
    /\ (pc \in {"noise_window", "ratio", "plot", "return", "returned"}
          \/ Done("noise_window")) =>
         /\ Len(fit_calls) = 2
         /\ fit_calls[1].f = "lorentzian" /\ fit_calls[1].outcome = NoError
         /\ fit_calls[2].f = "gaussian" /\ fit_calls[2].outcome = NoError
         /\ params.lorentzian \in FitTriples
         /\ params.gaussian \in FitTriples
    /\ Done("noise_window") =>
         /\ begin = Selected[1] - NoiseHalfWidths * Abs(Selected[2])
         /\ end = Selected[1] + NoiseHalfWidths * Abs(Selected[2])
    /\ Done("ratio") => signal = Selected[3]
    /\ pc = "returned" =>
         (returned.kind = "finite" => returned.num * noise
                                        = Factor(sub_zero) * Selected[3] * returned.den)

\* A Lorentzian ratio returned after a Gaussian fit that differs from the
\* Lorentzian one in every parameter.
C6_Witness ==
    /\ pc = "returned"
    /\ line_shape = "lorentzian"
    /\ \A k \in 1..3 : params.lorentzian[k] # params.gaussian[k]
    /\ returned.kind = "finite"

\* The signal window, once computed, holds no point.
EmptySignalWindow == Done("window") /\ window[1] >= window[2]
\* The noise slice, once derived, holds no point.
EmptyNoiseWindow == Done("noise_window") /\ noise_window = << >>

(* C7 as stated: a call whose signal window or noise slice is empty ends  *)
(* with InsufficientDataError and returns no value.                       *)
C7_InsufficientDataErrorRaised ==
    (Finished /\ (EmptySignalWindow \/ EmptyNoiseWindow)) =>
        /\ pc = "raised"
        /\ err = "InsufficientDataError"
        /\ returned = NoValue

(* C7, amended: a call whose signal window is empty is ended by the       *)
(* ValueError of np.max at line 88, before any fit; a call whose noise    *)
(* slice is empty is ended by the ValueError of max() at line 101, before *)
(* a ratio is computed.  Neither returns a value.                         *)
C7_EmptyWindowRaises ==
    /\ EmptySignalWindow =>
         /\ pc \in {"initial_params", "raised"}
         /\ pc = "raised" => err = "ValueError"
         /\ fit_calls = << >>
         /\ returned = NoValue
    /\ EmptyNoiseWindow =>
         /\ pc \in {"ratio", "raised"}
         /\ pc = "raised" => err = "ValueError"
         /\ snr = NoValue
         /\ figures = 0
         /\ returned = NoValue

\* Both fits succeeded, the two noise bounds fell on one index, and the
\* call ended with the exception.
C7_Witness ==
    /\ EmptyNoiseWindow
    /\ NearestIndex(time_data, begin) = NearestIndex(time_data, end)
    /\ begin < end
    /\ pc = "raised"
    /\ err = "ValueError"

\* The calls of curve_fit in which the solver failed.
FailedFits == {k \in 1..Len(fit_calls) : fit_calls[k].outcome # NoError}

(* C8: when curve_fit fails for either shape, the shape asked for or the  *)
(* other, the call is over with that exception: no further fit is tried,  *)
(* no noise window is derived, no figure is made, no file is written and  *)
(* no value is returned.                                                  *)
C8_FitFailurePropagates ==
    \A k \in FailedFits :
        /\ pc = "raised"
        /\ err = fit_calls[k].outcome
        /\ k = Len(fit_calls)
        /\ params[fit_calls[k].f] = << >>
        /\ ~Done("noise_window")
        /\ noise_window = << >>
        /\ snr = NoValue
        /\ figures = 0
        /\ saved = << >>
        /\ returned = NoValue

\* The solver did not converge for the Gaussian while the Lorentzian, fitted
\* first, was the shape asked for.
C8_Witness ==
    /\ line_shape = "lorentzian"
    /\ Len(fit_calls) = 2
    /\ params.lorentzian # << >>
    /\ fit_calls[2].outcome = "RuntimeError"
    /\ pc = "raised"

(* C9 as stated: every value returned over a noise slice of non-zero      *)
(* amplitude is a non-negative real number.                               *)
C9_NonNegative ==
    (pc = "returned" /\ noise # 0) =>
        (returned.kind = "finite" /\ returned.num >= 0)

(* C9, amended: a value returned over a noise slice of non-zero amplitude *)
(* is a real number with the sign of the fitted height of the shape asked *)
(* for: non-negative when that height is non-negative, negative when it   *)
(* is negative.                                                           *)
C9_SignOfHeight ==
    (pc = "returned" /\ noise # 0) =>
        /\ returned.kind = "finite"
        /\ returned.den > 0
        /\ Selected[3] > 0 => returned.num > 0
        /\ Selected[3] = 0 => returned.num = 0
        /\ Selected[3] < 0 => returned.num < 0

\* A negative ratio returned.
C9_Witness ==
    /\ pc = "returned"
    /\ noise # 0
    /\ Selected[3] < 0
    /\ returned.num < 0

(* C10: without plot no figure is made and no file is written; with plot  *)
(* exactly one figure is made, and one file is written exactly when       *)
(* plot_path is not None; the value returned is the ratio computed before *)
(* the figure, from the triple of the shape asked for, whatever plot,     *)
(* plot_path and title are and whatever the figure rebinds.               *)
C10_DiagnosticsSideChannel ==
    /\ ~plot => (figures = 0 /\ saved = << >> /\ fig_title = << >>)
    /\ figures <= 1
    /\ Len(saved) <= figures
    /\ pc \in {"return", "returned"} =>
         /\ figures = (IF plot THEN 1 ELSE 0)
         /\ saved = (IF plot /\ plot_path # "None" THEN <<plot_path>> ELSE << >>)
         /\ plot => fig_title = <<title, snr>>
         /\ snr = TrueDivide(Factor(sub_zero) * Selected[3],
                             Max(noise_window) - Min(noise_window))
    /\ pc = "returned" => returned = snr

\* A Lorentzian ratio returned after a figure was made and saved, the figure
\* having rebound height to a Gaussian height that differs.
C10_Witness ==
    /\ pc = "returned"
    /\ plot
    /\ saved = <<"fig.png">>
    /\ line_shape = "lorentzian"
    /\ height # signal
    /\ returned.kind = "finite"
    /\ returned.num # 0

====
